---- MODULE Spec2Model ----
(***************************************************************************)
(* Model of the Audio Lab component (src/components/AudioLab.tsx): the     *)
(* transport clock, the stem registry with mute/solo/reference resolution, *)
(* the metering loop, the lyric cues and the session snapshot.             *)
(*                                                                         *)
(* Numbers.  JavaScript numbers are modelled in fixed point with exact     *)
(* integer arithmetic:                                                     *)
(*   - wall-clock time (Date.now()) in milliseconds;                       *)
(*   - playbackProgress in units of 1/PU percent (100% = Full);            *)
(*   - playbackSpeed in tenths (10 = 1.0x);                                *)
(*   - seek targets in milliseconds of track time;                         *)
(*   - Math.random() as a numerator over RandDen;                          *)
(*   - volumes as numerators over VolDen when a factor 0.2 / 0.25 applies. *)
(* The clock steps and speeds are chosen so that every division of the     *)
(* transport is exact.  NaN is a distinguished value that every arithmetic *)
(* operator, Math.min and Math.max propagate and every comparison rejects. *)
(* The one place where the rounding of doubles is modelled is the time the *)
(* lyric index reads back from playbackProgress (TrackTime).               *)
(*                                                                         *)
(* React.  A handler, the re-render it causes and the effects that re-run  *)
(* because one of their dependencies changed are one atomic action.        *)
(***************************************************************************)
EXTENDS Integers, Sequences, FiniteSets, TLC

\* ------------------------------------------------------------------ constants

trackDuration == 180
EQ_BANDS == 12

\* progress units per percent
PU == 9
Full == 100 * PU

\* JavaScript NaN
NaN == 0 - (1000 * 1000 * 1000)
IsNaN(x) == x = NaN

\* bounds of the model
MaxNow == 360000
MaxSeed == 2
MaxOrphans == 1

ClockSteps == {40000, 120000}
Speeds == {5, 10, 20}
\* the lab modules that are switched to (EXPLORER and TUNER render like GENERATOR here)
Modules == {"DAW", "KARAOKE", "GENERATOR"}

\* Math.random(): numerators over RandDen, drawn from a stream chosen per tick
RandDen == 4
RandNums == <<0, 2, 3>>
\* volumes scaled by 0.2 or 0.25 are numerators over VolDen
VolDen == 20

\* pointer input of a timeline click
ViewportWidths == {900}
Zooms == {10, 15, 20}
ClickXs == {0, 300, 600, 900}
VolumeInputs == {0, 100}
PanInputs == {-100, 0}
\* the stem rows whose controls are operated
MixerRows == {1, 2}

VARIABLES
  now,                \* Date.now()
  playbackStatus,     \* 'PLAYING' | 'PAUSED' | 'STOPPED'
  playbackProgress,   \* 0..Full, or NaN
  playbackSpeed,      \* tenths
  startTime,          \* the anchor captured by the pending update closure
  rafPending,         \* a requestAnimationFrame(update) is pending
  pendingFrames,      \* the number of requested frames not yet run or cancelled
  isProcessing,
  procP,              \* the counter p of simulateProcessing's interval
  songFile,           \* a file is loaded (TRUE) or null (FALSE)
  metadata,           \* [lyrics, chords] or Null
  activeModule,
  stems,              \* sequence of [id, name, volume, pan, muted]
  soloedIds,          \* sequence of ids
  isVocalReference,
  isAutoTuneActive,
  peakLevels, rmsLevels, frequencyLevels,
  pitchCorrectionDelta,
  meterClosure,       \* what the pending setInterval callback captured, or Null
  liveIntervals,      \* the number of metering intervals set and not yet cleared
  storage,            \* localStorage['vs_project_cache']
  isGenerating,       \* handleGenerateAISong awaits its response
  isRemapping,        \* handleNeuralRemap awaits its response
  remapStems,         \* the stems captured by the pending handleNeuralRemap, or Null
  isExporting,
  expP,               \* the counter p of handleExportStems's interval
  orphanTimers,       \* the intervals of instances that were unmounted: set of [kind, p]
  lastOp              \* the handler that ran last: [op, val (its input or result), pre]

transportVars ==
  <<playbackStatus, playbackProgress, playbackSpeed, startTime, rafPending, pendingFrames>>
sessionVars == <<isProcessing, procP, songFile, metadata, activeModule>>
mixerVars == <<stems, soloedIds, isVocalReference, isAutoTuneActive>>
meterVars ==
  <<peakLevels, rmsLevels, frequencyLevels, pitchCorrectionDelta, meterClosure, liveIntervals>>
projectVars == <<storage, isGenerating, isRemapping, remapStems>>
teardownVars == <<isExporting, expP, orphanTimers>>
vars ==
  <<now, transportVars, sessionVars, mixerVars, meterVars, projectVars, teardownVars, lastOp>>

Null == [null |-> TRUE]

\* localStorage.getItem returns null: nothing is stored under the key
Absent == [absent |-> TRUE]

\* JavaScript undefined in a place that holds a number
Undefined == 0 - (2000 * 1000 * 1000)

\* ------------------------------------------------------------------ numbers

Min(a, b) == IF a <= b THEN a ELSE b
Max(a, b) == IF a >= b THEN a ELSE b

MathMin(a, b) == IF IsNaN(a) \/ IsNaN(b) THEN NaN ELSE Min(a, b)
MathMax(a, b) == IF IsNaN(a) \/ IsNaN(b) THEN NaN ELSE Max(a, b)
JsGeq(a, b) == ~IsNaN(a) /\ ~IsNaN(b) /\ a >= b

\* trackDuration * 1000 / playbackSpeed, in ms
Span(speed) == (trackDuration * 1000 * 10) \div speed

\* ------------------------------------------------------------------ effects

\* mutant: the anchor forgets the position already played
AnchorAtNow(progress, speed, t) == t

\* mutant: the anchor is computed as if the speed were 1.0
AnchorAtUnitSpeed(progress, speed, t) ==
  IF IsNaN(progress) THEN NaN ELSE t - ((progress * Span(10)) \div Full)

\* const startTime = Date.now() - (playbackProgress / 100) * (trackDuration * 1000 / playbackSpeed)
AnchorOf(progress, speed, t) ==
  IF IsNaN(progress) \/ speed = Undefined THEN NaN
  ELSE t - ((progress * Span(speed)) \div Full)

\* const newProgress = (elapsed / (trackDuration * 1000 / playbackSpeed)) * 100
NewProgress(anchor, speed, t) ==
  IF IsNaN(anchor) \/ speed = Undefined THEN NaN
  ELSE ((t - anchor) * Full) \div Span(speed)

\* The frames pending after the effect re-ran: the cleanup cancels the frame
\* playbackTimerRef.current names (the one requested last, if it has not
\* run), the body requests one while PLAYING.
FramesAfterEffect ==
  pendingFrames - (IF pendingFrames > 0 THEN 1 ELSE 0)
    + (IF playbackStatus' = "PLAYING" THEN 1 ELSE 0)

\* mutant: playbackSpeed is missing from the dependencies of the effect
PlaybackEffectNoSpeedDep ==
  IF <<playbackStatus', playbackProgress'>> = <<playbackStatus, playbackProgress>>
  THEN UNCHANGED <<startTime, rafPending, pendingFrames>>
  ELSE /\ rafPending' = (playbackStatus' = "PLAYING")
       /\ pendingFrames' = FramesAfterEffect
       /\ startTime' = IF playbackStatus' = "PLAYING"
                       THEN AnchorOf(playbackProgress', playbackSpeed', now')
                       ELSE 0

\* mutant: the frame requested while PLAYING is not cancelled when the status
\* leaves PLAYING
PlaybackEffectKeepsFrame ==
  IF <<playbackStatus', playbackSpeed', playbackProgress'>>
       = <<playbackStatus, playbackSpeed, playbackProgress>>
  THEN UNCHANGED <<startTime, rafPending, pendingFrames>>
  ELSE IF playbackStatus' = "PLAYING"
       THEN /\ rafPending' = TRUE
            /\ pendingFrames' = FramesAfterEffect
            /\ startTime' = AnchorOf(playbackProgress', playbackSpeed', now')
       ELSE UNCHANGED <<startTime, rafPending, pendingFrames>>

\* The Playback Logic effect, re-run when playbackStatus, playbackSpeed or
\* playbackProgress changed: the cleanup cancels the pending frame, the body
\* anchors a new closure and requests a frame while PLAYING.
PlaybackEffect ==
  IF <<playbackStatus', playbackSpeed', playbackProgress'>>
       = <<playbackStatus, playbackSpeed, playbackProgress>>
  THEN UNCHANGED <<startTime, rafPending, pendingFrames>>
  ELSE /\ rafPending' = (playbackStatus' = "PLAYING")
       /\ pendingFrames' = FramesAfterEffect
       /\ startTime' = IF playbackStatus' = "PLAYING"
                       THEN AnchorOf(playbackProgress', playbackSpeed', now')
                       ELSE 0

ZeroBands == [b \in 1..EQ_BANDS |-> 0]

\* The intervals live after the effect re-ran: the cleanup clears the interval
\* the previous run set (it set one while PLAYING), the body sets one while
\* PLAYING.
IntervalsAfterEffect ==
  liveIntervals - (IF playbackStatus = "PLAYING" THEN 1 ELSE 0)
    + (IF playbackStatus' = "PLAYING" THEN 1 ELSE 0)

\* mutant: leaving PLAYING clears the interval but keeps the last frame
MeterEffectKeepsLevels ==
  IF <<playbackStatus', stems', soloedIds', isVocalReference', isAutoTuneActive'>>
       = <<playbackStatus, stems, soloedIds, isVocalReference, isAutoTuneActive>>
  THEN UNCHANGED meterVars
  ELSE /\ meterClosure' = IF playbackStatus' = "PLAYING"
                          THEN [stems |-> stems', soloedIds |-> soloedIds',
                                isVocalReference |-> isVocalReference',
                                isAutoTuneActive |-> isAutoTuneActive']
                          ELSE Null
       /\ liveIntervals' = IntervalsAfterEffect
       /\ UNCHANGED <<peakLevels, rmsLevels, frequencyLevels, pitchCorrectionDelta>>

\* mutant: the effect has no cleanup, the interval of the previous run stays
MeterEffectNoCleanup ==
  IF <<playbackStatus', stems', soloedIds', isVocalReference', isAutoTuneActive'>>
       = <<playbackStatus, stems, soloedIds, isVocalReference, isAutoTuneActive>>
  THEN UNCHANGED meterVars
  ELSE IF playbackStatus' = "PLAYING"
       THEN /\ meterClosure' = [stems |-> stems', soloedIds |-> soloedIds',
                                isVocalReference |-> isVocalReference',
                                isAutoTuneActive |-> isAutoTuneActive']
            /\ liveIntervals' = liveIntervals + 1
            /\ UNCHANGED <<peakLevels, rmsLevels, frequencyLevels, pitchCorrectionDelta>>
       ELSE /\ meterClosure' = Null
            /\ liveIntervals' = liveIntervals
            /\ peakLevels' = [i \in 1..Len(stems') |-> 0]
            /\ rmsLevels' = [i \in 1..Len(stems') |-> 0]
            /\ frequencyLevels' = [i \in 1..Len(stems') |-> ZeroBands]
            /\ pitchCorrectionDelta' = 0

\* mutant: soloedIds is missing from the dependencies of the effect
MeterEffectNoSoloDep ==
  IF <<playbackStatus', stems', isVocalReference', isAutoTuneActive'>>
       = <<playbackStatus, stems, isVocalReference, isAutoTuneActive>>
  THEN UNCHANGED meterVars
  ELSE IF playbackStatus' = "PLAYING"
       THEN /\ meterClosure' = [stems |-> stems', soloedIds |-> soloedIds',
                                isVocalReference |-> isVocalReference',
                                isAutoTuneActive |-> isAutoTuneActive']
            /\ liveIntervals' = IntervalsAfterEffect
            /\ UNCHANGED <<peakLevels, rmsLevels, frequencyLevels, pitchCorrectionDelta>>
       ELSE /\ meterClosure' = Null
            /\ liveIntervals' = IntervalsAfterEffect
            /\ peakLevels' = [i \in 1..Len(stems') |-> 0]
            /\ rmsLevels' = [i \in 1..Len(stems') |-> 0]
            /\ frequencyLevels' = [i \in 1..Len(stems') |-> ZeroBands]
            /\ pitchCorrectionDelta' = 0

\* The Peak Meter effect, re-run when playbackStatus, stems, soloedIds,
\* isVocalReference or isAutoTuneActive changed.
MeterEffect ==
  IF <<playbackStatus', stems', soloedIds', isVocalReference', isAutoTuneActive'>>
       = <<playbackStatus, stems, soloedIds, isVocalReference, isAutoTuneActive>>
  THEN UNCHANGED meterVars
  ELSE IF playbackStatus' = "PLAYING"
       THEN /\ meterClosure' = [stems |-> stems', soloedIds |-> soloedIds',
                                isVocalReference |-> isVocalReference',
                                isAutoTuneActive |-> isAutoTuneActive']
            /\ liveIntervals' = IntervalsAfterEffect
            /\ UNCHANGED <<peakLevels, rmsLevels, frequencyLevels, pitchCorrectionDelta>>
       ELSE /\ meterClosure' = Null
            /\ liveIntervals' = IntervalsAfterEffect
            /\ peakLevels' = [i \in 1..Len(stems') |-> 0]
            /\ rmsLevels' = [i \in 1..Len(stems') |-> 0]
            /\ frequencyLevels' = [i \in 1..Len(stems') |-> ZeroBands]
            /\ pitchCorrectionDelta' = 0

\* the full-screen overlay shown while processing or exporting blocks every
\* pointer action
UIEnabled == ~isProcessing /\ ~isExporting

\* ------------------------------------------------------------------ transport

Tick(d) ==
  /\ now + d <= MaxNow
  /\ now' = now + d
  /\ UNCHANGED <<transportVars, sessionVars, mixerVars, meterVars, projectVars, teardownVars,
                 lastOp>>

\* mutant: at the end of the track the position wraps and playback goes on
UpdateWrapping ==
  /\ rafPending
  /\ LET newProgress == ((now - startTime) * Full) \div Span(playbackSpeed) IN
       /\ playbackProgress' = IF newProgress >= Full THEN newProgress - Full ELSE newProgress
       /\ playbackStatus' = playbackStatus
       /\ lastOp' = [op |-> "update", val |-> newProgress, pre |-> playbackProgress]
  /\ UNCHANGED <<now, teardownVars, projectVars, playbackSpeed, sessionVars, mixerVars>>
  /\ PlaybackEffect
  /\ MeterEffect

\* the requestAnimationFrame callback
Update ==
  /\ rafPending
  /\ LET newProgress == NewProgress(startTime, playbackSpeed, now) IN
       /\ IF JsGeq(newProgress, Full)
          THEN /\ playbackProgress' = 0
               /\ playbackStatus' = "STOPPED"
          ELSE /\ playbackProgress' = newProgress
               /\ playbackStatus' = playbackStatus
       /\ lastOp' = [op |-> "update", val |-> newProgress, pre |-> playbackProgress]
  /\ UNCHANGED <<now, teardownVars, projectVars, playbackSpeed, sessionVars, mixerVars>>
  /\ PlaybackEffect
  /\ MeterEffect

togglePlayback ==
  /\ UIEnabled
  /\ playbackStatus' = IF playbackStatus = "PLAYING" THEN "PAUSED" ELSE "PLAYING"
  /\ lastOp' = [op |-> "togglePlayback", val |-> playbackProgress, pre |-> playbackStatus]
  /\ UNCHANGED <<now, teardownVars, projectVars, playbackProgress, playbackSpeed, sessionVars, mixerVars>>
  /\ PlaybackEffect
  /\ MeterEffect

stopPlayback ==
  /\ UIEnabled
  /\ playbackStatus' = "STOPPED"
  /\ playbackProgress' = 0
  /\ lastOp' = [op |-> "stopPlayback", val |-> 0, pre |-> playbackStatus]
  /\ UNCHANGED <<now, teardownVars, projectVars, playbackSpeed, sessionVars, mixerVars>>
  /\ PlaybackEffect
  /\ MeterEffect

\* (time / trackDuration) * 100, time in ms of track time
SeekProgress(time) ==
  IF IsNaN(time) THEN NaN ELSE (time * Full) \div (trackDuration * 1000)

\* mutant: only the upper end is clamped
ClampUpperOnly(p) == MathMin(Full, p)

ClampProgress(p) == MathMax(0, MathMin(Full, p))

\* mutant: a seek leaves a stopped transport stopped
jumpToTimeStaysStopped(time) ==
  /\ IF isProcessing
     THEN UNCHANGED <<playbackProgress, playbackStatus>>
     ELSE /\ playbackProgress' = ClampProgress(SeekProgress(time))
          /\ playbackStatus' = playbackStatus
  /\ UNCHANGED <<now, teardownVars, projectVars, playbackSpeed, sessionVars, mixerVars>>
  /\ PlaybackEffect
  /\ MeterEffect

jumpToTime(time) ==
  /\ IF isProcessing
     THEN UNCHANGED <<playbackProgress, playbackStatus>>
     ELSE /\ playbackProgress' = ClampProgress(SeekProgress(time))
          /\ playbackStatus' = IF playbackStatus = "STOPPED" THEN "PAUSED" ELSE playbackStatus
  /\ UNCHANGED <<now, teardownVars, projectVars, playbackSpeed, sessionVars, mixerVars>>
  /\ PlaybackEffect
  /\ MeterEffect

\* the speed slider / the restored playbackSpeed
setPlaybackSpeed(s) ==
  /\ UIEnabled
  /\ playbackSpeed' = s
  /\ lastOp' = [op |-> "setPlaybackSpeed", val |-> s, pre |-> playbackSpeed]
  /\ UNCHANGED <<now, teardownVars, projectVars, playbackStatus, playbackProgress, sessionVars, mixerVars>>
  /\ PlaybackEffect
  /\ MeterEffect

\* onClick of a chord cell of the harmonic track
ChordClick(i) ==
  /\ UIEnabled /\ songFile /\ activeModule = "DAW" /\ metadata # Null
  /\ i \in 0..(metadata.chords - 1)
  /\ LET time == i * ((trackDuration * 1000) \div metadata.chords) IN
       /\ lastOp' = [op |-> "jumpToTime", val |-> time, pre |-> playbackStatus]
       /\ jumpToTime(time)

\* onClick of a lyric line of the karaoke view
LyricClick(i) ==
  /\ UIEnabled /\ songFile /\ activeModule = "KARAOKE" /\ metadata # Null
  /\ i \in 1..Len(metadata.lyrics)
  /\ LET time == metadata.lyrics[i] * 1000 IN
       /\ lastOp' = [op |-> "jumpToTime", val |-> time, pre |-> playbackStatus]
       /\ jumpToTime(time)

\* mutant: the offset is taken as a share of the visible width
TimelineTimeOfViewport(clickX, totalWidth) ==
  (clickX * trackDuration * 1000) \div (CHOOSE w \in ViewportWidths : TRUE)

\* seekPercentage = (clickX / totalWidth) * 100; jumpToTime((seekPercentage / 100) * trackDuration)
TimelineTime(clickX, totalWidth) == (clickX * trackDuration * 1000) \div totalWidth

handleTimelineSeek(clickX, totalWidth) ==
  /\ UIEnabled /\ songFile /\ activeModule = "DAW"
  /\ IF Len(stems) = 0 \/ isProcessing
     THEN /\ lastOp' = [op |-> "handleTimelineSeek", val |-> 0, pre |-> 0]
          /\ UNCHANGED <<now, teardownVars, projectVars, transportVars, sessionVars, mixerVars, meterVars>>
     ELSE LET time == TimelineTime(clickX, totalWidth) IN
            /\ lastOp' = [op |-> "jumpToTime", val |-> time, pre |-> playbackStatus]
            /\ jumpToTime(time)

\* ------------------------------------------------------------------ lyric cues

\* time units per millisecond: one unit stands for one rounding error of a double
MsUnits == 4

\* the whole seconds t in 0..trackDuration for which
\* ((t / trackDuration) * 100 / 100) * trackDuration, evaluated in IEEE-754
\* doubles as jumpToTime and currentLyricIndex evaluate it, is below t
RoundsBelow == {13, 15, 21, 26, 29, 30, 42, 49, 52, 58, 60, 63, 65, 84, 98, 104, 109,
                115, 116, 120, 123, 126, 130, 165, 168, 175}
\* ... and those for which it is above t
RoundsAbove == {35, 55, 70, 75, 93, 99, 110, 121, 127, 140, 147, 150}

\* const time = (playbackProgress / 100) * trackDuration, in time units
TrackTime(progress) ==
  IF IsNaN(progress) THEN NaN
  ELSE LET ms == (progress * trackDuration * 1000) \div Full
           sec == ms \div 1000
       IN ms * MsUnits
            + (IF ms % 1000 # 0 THEN 0
               ELSE IF sec \in RoundsBelow THEN 0 - 1
               ELSE IF sec \in RoundsAbove THEN 1
               ELSE 0)

\* a cue time (seconds) in time units
CueTime(sec) == sec * 1000 * MsUnits

\* mutant: the cue only has to start before the time
LyricMatchesNoUpper(lyrics, i, time) ==
  /\ ~IsNaN(time)
  /\ CueTime(lyrics[i]) <= time

\* mutant: the cue only has to end after the time
LyricMatchesNoLower(lyrics, i, time) ==
  /\ ~IsNaN(time)
  /\ \/ (i < Len(lyrics) /\ CueTime(lyrics[i + 1]) > time)
     \/ i = Len(lyrics)

\* l.time <= time && (lyrics[i+1]?.time > time || i === lyrics.length - 1)
LyricMatches(lyrics, i, time) ==
  /\ ~IsNaN(time)
  /\ CueTime(lyrics[i]) <= time
  /\ \/ (i < Len(lyrics) /\ CueTime(lyrics[i + 1]) > time)
     \/ i = Len(lyrics)

\* lyrics.findIndex(...): the first index (from 0) that matches, or -1
FindIndex(lyrics, time) ==
  LET hits == {i \in 1..Len(lyrics) : LyricMatches(lyrics, i, time)} IN
    IF hits = {} THEN 0 - 1
    ELSE (CHOOSE i \in hits : \A j \in hits : i <= j) - 1

LyricIndexOf(meta, progress) ==
  IF meta = Null THEN 0 - 1 ELSE FindIndex(meta.lyrics, TrackTime(progress))

\* the useMemo over [metadata, playbackProgress]
currentLyricIndex == LyricIndexOf(metadata, playbackProgress)

\* ------------------------------------------------------------------ session

setActiveModule(m) ==
  /\ UIEnabled
  /\ activeModule' = m
  /\ lastOp' = [op |-> "setActiveModule", val |-> 0, pre |-> 0]
  /\ UNCHANGED <<now, teardownVars, projectVars, transportVars, isProcessing, procP, songFile, metadata,
                 mixerVars, meterVars>>

\* onChange of the file input: setSongFile(file); simulateProcessing()
UploadFile ==
  /\ UIEnabled /\ ~songFile /\ activeModule # "GENERATOR"
  /\ songFile' = TRUE
  /\ isProcessing' = TRUE
  /\ procP' = 0
  /\ lastOp' = [op |-> "simulateProcessing", val |-> 0, pre |-> 0]
  /\ UNCHANGED <<now, teardownVars, projectVars, transportVars, metadata, activeModule, mixerVars, meterVars>>

ProcessedLyrics == <<5, 12, 20, 28>>
ProcessedStems ==
  << [id |-> "1", name |-> "Isolated Vocals", volume |-> 0, pan |-> 0, muted |-> FALSE],
     [id |-> "2", name |-> "Guitars / Keys", volume |-> 90, pan |-> 0, muted |-> FALSE],
     [id |-> "3", name |-> "Percussion", volume |-> 80, pan |-> 0, muted |-> FALSE],
     [id |-> "4", name |-> "Bass Line", volume |-> 75, pan |-> 0, muted |-> FALSE] >>

\* the interval callback of simulateProcessing; at p >= 100 it runs finishProcessing
ProcessingTick ==
  /\ isProcessing
  /\ procP' = procP + 2
  /\ lastOp' = [op |-> "processingTick", val |-> procP + 2, pre |-> 0]
  /\ IF procP + 2 >= 100
     THEN /\ metadata' = [lyrics |-> ProcessedLyrics, chords |-> 6]
          /\ stems' = ProcessedStems
          /\ soloedIds' = <<>>
          /\ isProcessing' = FALSE
     ELSE UNCHANGED <<metadata, stems, soloedIds, isProcessing>>
  /\ UNCHANGED <<now, teardownVars, projectVars, playbackStatus, playbackProgress, playbackSpeed, songFile,
                 activeModule, isVocalReference, isAutoTuneActive>>
  /\ PlaybackEffect
  /\ MeterEffect

\* the number of lyric lines in the response of the model
GenLineCounts == {0, 6, 7}

\* (data.lyrics || []).map((text, i) => ({ time: i * 8 + 4, text }))
GeneratedLyrics(n) == [i \in 1..n |-> (i - 1) * 8 + 4]

GeneratedStems ==
  << [id |-> "1", name |-> "Neural Vocals", volume |-> 80, pan |-> 0, muted |-> FALSE],
     [id |-> "2", name |-> "Synthesizers", volume |-> 90, pan |-> 0, muted |-> FALSE],
     [id |-> "3", name |-> "Industrial Drums", volume |-> 85, pan |-> 0, muted |-> FALSE],
     [id |-> "4", name |-> "Pulsing Bass", volume |-> 75, pan |-> 0, muted |-> FALSE] >>

\* handleGenerateAISong up to its await
GenerateStart ==
  /\ UIEnabled /\ activeModule = "GENERATOR" /\ ~isGenerating
  /\ isGenerating' = TRUE
  /\ lastOp' = [op |-> "generateStart", val |-> 0, pre |-> 0]
  /\ UNCHANGED <<now, teardownVars, transportVars, sessionVars, mixerVars, meterVars,
                 storage, isRemapping, remapStems>>

\* handleGenerateAISong after its await, the response parsed with n lyric lines
GenerateResponse(n) ==
  /\ isGenerating
  /\ metadata' = [lyrics |-> GeneratedLyrics(n), chords |-> 4]
  /\ stems' = GeneratedStems
  /\ soloedIds' = <<>>
  /\ songFile' = TRUE
  /\ activeModule' = "DAW"
  /\ isGenerating' = FALSE
  /\ lastOp' = [op |-> "generate", val |-> n, pre |-> 0]
  /\ UNCHANGED <<now, teardownVars, playbackStatus, playbackProgress, playbackSpeed, isProcessing, procP,
                 isVocalReference, isAutoTuneActive, storage, isRemapping, remapStems>>
  /\ PlaybackEffect
  /\ MeterEffect

\* handleGenerateAISong after its await: the request or JSON.parse threw
GenerateFailed ==
  /\ isGenerating
  /\ isGenerating' = FALSE
  /\ lastOp' = [op |-> "generateFailed", val |-> 0, pre |-> 0]
  /\ UNCHANGED <<now, teardownVars, transportVars, sessionVars, mixerVars, meterVars,
                 storage, isRemapping, remapStems>>

GenerateNext ==
  \/ GenerateStart
  \/ \E n \in GenLineCounts : GenerateResponse(n)
  \/ GenerateFailed

\* ------------------------------------------------------------------ mixer

Range(seq) == {seq[i] : i \in 1..Len(seq)}

\* mutant: a muted stem stays silent when it is soloed
isStemActiveMuteWins(stem, solo) ==
  (Len(solo) > 0 => stem.id \in Range(solo)) /\ ~stem.muted

isStemActive(stem, solo) ==
  IF Len(solo) > 0 THEN stem.id \in Range(solo) ELSE ~stem.muted

\* stem.name.toLowerCase().includes('vocal')
VocalNames == {"Isolated Vocals", "Neural Vocals", "Backing Vocals"}
IsVocalStem(stem) == stem.name \in VocalNames \/ stem.id = "1"

MixerVisible == UIEnabled /\ songFile /\ activeModule = "DAW"

\* mutant: the id is appended whether or not it is already soloed
SoloAppended(prev, id) == Append(prev, id)

\* prev => prev.includes(id) ? prev.filter(x => x !== id) : [...prev, id]
SoloToggled(prev, id) ==
  IF id \in Range(prev)
  THEN SelectSeq(prev, LAMBDA x : x # id)
  ELSE Append(prev, id)

\* stems.map(s => s.id === id ? { ...s, muted: !s.muted } : s)
MuteToggled(list, id) ==
  [j \in 1..Len(list) |->
     IF list[j].id = id THEN [list[j] EXCEPT !.muted = ~list[j].muted] ELSE list[j]]

\* the S button of a stem row
toggleSolo(i) ==
  /\ MixerVisible /\ i \in 1..Len(stems)
  /\ soloedIds' = SoloToggled(soloedIds, stems[i].id)
  /\ lastOp' = [op |-> "toggleSolo", val |-> i, pre |-> 0]
  /\ UNCHANGED <<now, teardownVars, projectVars, playbackStatus, playbackProgress, playbackSpeed, sessionVars,
                 stems, isVocalReference, isAutoTuneActive>>
  /\ PlaybackEffect
  /\ MeterEffect

\* the M button of a stem row
toggleMute(i) ==
  /\ MixerVisible /\ i \in 1..Len(stems)
  /\ stems' = MuteToggled(stems, stems[i].id)
  /\ lastOp' = [op |-> "toggleMute", val |-> i, pre |-> 0]
  /\ UNCHANGED <<now, teardownVars, projectVars, playbackStatus, playbackProgress, playbackSpeed, sessionVars,
                 soloedIds, isVocalReference, isAutoTuneActive>>
  /\ PlaybackEffect
  /\ MeterEffect

\* the Gain slider of a stem row
setVolume(i, v) ==
  /\ MixerVisible /\ i \in 1..Len(stems)
  /\ stems' = [j \in 1..Len(stems) |->
                 IF stems[j].id = stems[i].id
                 THEN [stems[j] EXCEPT !.volume = v]
                 ELSE stems[j]]
  /\ lastOp' = [op |-> "setVolume", val |-> i, pre |-> 0]
  /\ UNCHANGED <<now, teardownVars, projectVars, playbackStatus, playbackProgress, playbackSpeed, sessionVars,
                 soloedIds, isVocalReference, isAutoTuneActive>>
  /\ PlaybackEffect
  /\ MeterEffect

\* the Pan slider of a stem row
setPan(i, v) ==
  /\ MixerVisible /\ i \in 1..Len(stems)
  /\ stems' = [j \in 1..Len(stems) |->
                 IF stems[j].id = stems[i].id
                 THEN [stems[j] EXCEPT !.pan = v]
                 ELSE stems[j]]
  /\ lastOp' = [op |-> "setPan", val |-> i, pre |-> 0]
  /\ UNCHANGED <<now, teardownVars, projectVars, playbackStatus, playbackProgress, playbackSpeed, sessionVars,
                 soloedIds, isVocalReference, isAutoTuneActive>>
  /\ PlaybackEffect
  /\ MeterEffect

VocalEngineVisible == UIEnabled /\ metadata # Null /\ Len(stems) > 0

toggleVocalReference ==
  /\ VocalEngineVisible
  /\ isVocalReference' = ~isVocalReference
  /\ lastOp' = [op |-> "toggleVocalReference", val |-> 0, pre |-> 0]
  /\ UNCHANGED <<now, teardownVars, projectVars, playbackStatus, playbackProgress, playbackSpeed, sessionVars,
                 stems, soloedIds, isAutoTuneActive>>
  /\ PlaybackEffect
  /\ MeterEffect

toggleAutoTune ==
  /\ VocalEngineVisible
  /\ isAutoTuneActive' = ~isAutoTuneActive
  /\ lastOp' = [op |-> "toggleAutoTune", val |-> 0, pre |-> 0]
  /\ UNCHANGED <<now, teardownVars, projectVars, playbackStatus, playbackProgress, playbackSpeed, sessionVars,
                 stems, soloedIds, isVocalReference>>
  /\ PlaybackEffect
  /\ MeterEffect

\* ------------------------------------------------------------------ metering

\* the k-th Math.random() of the tick whose stream is seed
Rnd(seed, k) == RandNums[((seed + k * (seed + 1)) % Len(RandNums)) + 1]

\* effectiveVol of the metering tick, over VolDen
MeterEffectiveVol(stem, ref) ==
  IF ref /\ IsVocalStem(stem)
  THEN Max(15 * VolDen, (stem.volume * 2 * VolDen) \div 10)
  ELSE stem.volume * VolDen

\* displayVolume of a stem row, over VolDen
DisplayVolume(stem, ref) ==
  IF ref /\ IsVocalStem(stem)
  THEN Max(20 * VolDen, (stem.volume * 25 * VolDen) \div 100)
  ELSE stem.volume * VolDen

\* denominators of the stored levels
PeakDen == RandDen * VolDen * 100
RmsDen == PeakDen * 10 * RandDen
BandDen == PeakDen * 10 * EQ_BANDS * 10 * RandDen

DrawsPerStem == 2 + 2 * EQ_BANDS

\* mutant: a vocal stem in reference mode is metered whether or not it is active
StemFrameReferenceAudible(stem, idx, solo, ref, seed) ==
  IF ~(isStemActive(stem, solo) \/ (ref /\ IsVocalStem(stem)))
  THEN [peak |-> 0, rms |-> 0, bands |-> ZeroBands]
  ELSE LET base == (idx - 1) * DrawsPerStem
           effectiveVol == MeterEffectiveVol(stem, ref)
           rawPeak == Rnd(seed, base) * effectiveVol
       IN [peak |-> rawPeak,
           rms |-> rawPeak * (6 * RandDen + 2 * Rnd(seed, base + 1)),
           bands |-> [b \in 1..EQ_BANDS |->
                        Rnd(seed, base + 2 * b) * effectiveVol
                          * (10 * EQ_BANDS - 4 * (b - 1))
                          * (3 * RandDen + 7 * Rnd(seed, base + 2 * b + 1))]]

\* mutant: the rms factor is 0.6 + random * 0.8
StemFrameRmsAbovePeak(stem, idx, solo, ref, seed) ==
  IF ~isStemActive(stem, solo)
  THEN [peak |-> 0, rms |-> 0, bands |-> ZeroBands]
  ELSE LET base == (idx - 1) * DrawsPerStem
           effectiveVol == MeterEffectiveVol(stem, ref)
           rawPeak == Rnd(seed, base) * effectiveVol
       IN [peak |-> rawPeak,
           rms |-> rawPeak * (6 * RandDen + 8 * Rnd(seed, base + 1)),
           bands |-> [b \in 1..EQ_BANDS |->
                        Rnd(seed, base + 2 * b) * effectiveVol
                          * (10 * EQ_BANDS - 4 * (b - 1))
                          * (3 * RandDen + 7 * Rnd(seed, base + 2 * b + 1))]]

\* one stem's entry of the frame: [peak, rms, bands]
StemFrame(stem, idx, solo, ref, seed) ==
  IF ~isStemActive(stem, solo)
  THEN [peak |-> 0, rms |-> 0, bands |-> ZeroBands]
  ELSE LET base == (idx - 1) * DrawsPerStem
           effectiveVol == MeterEffectiveVol(stem, ref)
           rawPeak == Rnd(seed, base) * effectiveVol
       IN [peak |-> rawPeak,
           rms |-> rawPeak * (6 * RandDen + 2 * Rnd(seed, base + 1)),
           bands |-> [b \in 1..EQ_BANDS |->
                        Rnd(seed, base + 2 * b) * effectiveVol
                          * (10 * EQ_BANDS - 4 * (b - 1))
                          * (3 * RandDen + 7 * Rnd(seed, base + 2 * b + 1))]]

\* mutant: the frame has entries for the active stems only
MeterTickSkipsInactive(seed) ==
  /\ meterClosure # Null
  /\ LET c == meterClosure
         act == SelectSeq(c.stems, LAMBDA st : isStemActive(st, c.soloedIds))
         n == Len(act)
         frame == [i \in 1..n |->
                     StemFrame(act[i], i, c.soloedIds, c.isVocalReference, seed)]
     IN /\ peakLevels' = [i \in 1..n |-> frame[i].peak]
        /\ rmsLevels' = [i \in 1..n |-> frame[i].rms]
        /\ frequencyLevels' = [i \in 1..n |-> frame[i].bands]
        /\ pitchCorrectionDelta' =
             IF c.isAutoTuneActive
             THEN (2 * Rnd(seed, n * DrawsPerStem) - RandDen) * 20
             ELSE 0
  /\ lastOp' = [op |-> "meterTick", val |-> seed, pre |-> 0]
  /\ UNCHANGED <<now, teardownVars, projectVars, transportVars, sessionVars, mixerVars, meterClosure, liveIntervals>>

\* the setInterval callback of the Peak Meter effect
MeterTick(seed) ==
  /\ meterClosure # Null
  /\ LET c == meterClosure
         n == Len(c.stems)
         frame == [i \in 1..n |->
                     StemFrame(c.stems[i], i, c.soloedIds, c.isVocalReference, seed)]
     IN /\ peakLevels' = [i \in 1..n |-> frame[i].peak]
        /\ rmsLevels' = [i \in 1..n |-> frame[i].rms]
        /\ frequencyLevels' = [i \in 1..n |-> frame[i].bands]
        /\ pitchCorrectionDelta' =
             IF c.isAutoTuneActive
             THEN (2 * Rnd(seed, n * DrawsPerStem) - RandDen) * 20
             ELSE 0
  /\ lastOp' = [op |-> "meterTick", val |-> seed, pre |-> 0]
  /\ UNCHANGED <<now, teardownVars, projectVars, transportVars, sessionVars, mixerVars, meterClosure, liveIntervals>>

\* ------------------------------------------------------------------ specification

Init ==
  /\ now = 0
  /\ playbackStatus = "STOPPED"
  /\ playbackProgress = 0
  /\ playbackSpeed = 10
  /\ startTime = 0
  /\ rafPending = FALSE
  /\ pendingFrames = 0
  /\ isProcessing = FALSE
  /\ procP = 0
  /\ songFile = FALSE
  /\ metadata = Null
  /\ activeModule = "DAW"
  /\ stems = <<>>
  /\ soloedIds = <<>>
  /\ isVocalReference = FALSE
  /\ isAutoTuneActive = FALSE
  /\ peakLevels = <<>>
  /\ rmsLevels = <<>>
  /\ frequencyLevels = <<>>
  /\ pitchCorrectionDelta = 0
  /\ meterClosure = Null
  /\ liveIntervals = 0
  /\ isExporting = FALSE
  /\ expP = 0
  /\ orphanTimers = {}
  /\ storage = Absent
  /\ isGenerating = FALSE
  /\ isRemapping = FALSE
  /\ remapStems = Null
  /\ lastOp = [op |-> "mount", val |-> 0, pre |-> 0]

SessionNext ==
  \/ UploadFile
  \/ ProcessingTick
  \/ \E m \in Modules : setActiveModule(m)

TransportNext ==
  \/ \E d \in ClockSteps : Tick(d)
  \/ Update
  \/ togglePlayback
  \/ stopPlayback
  \/ \E s \in Speeds : setPlaybackSpeed(s)
  \/ \E i \in 0..5 : ChordClick(i)
  \/ \E i \in 1..4 : LyricClick(i)
  \/ \E x \in ClickXs, w \in ViewportWidths, z \in Zooms :
       handleTimelineSeek(x, (w * z) \div 10)

SoloMuteNext ==
  \/ \E i \in MixerRows : toggleSolo(i)
  \/ \E i \in MixerRows : toggleMute(i)

GainNext ==
  \/ \E i \in MixerRows, v \in VolumeInputs : setVolume(i, v)
  \/ \E i \in MixerRows, v \in PanInputs : setPan(i, v)

OverlayNext ==
  \/ toggleVocalReference
  \/ toggleAutoTune

MeterNext == \E seed \in 0..MaxSeed : MeterTick(seed)

\* the transport alone: the session, the clock and every seek
SpecTransport == Init /\ [][SessionNext \/ TransportNext]_vars

\* a lyric line whose time is any number: the cues of a restored snapshot are
\* whatever JSON.parse returned
SeekTargets == {NaN, 0 - 5000, 0, 90000, 180000, 200000}

LyricSeek(time) ==
  /\ UIEnabled /\ songFile /\ activeModule = "KARAOKE" /\ metadata # Null
  /\ lastOp' = [op |-> "jumpToTime", val |-> time, pre |-> playbackStatus]
  /\ jumpToTime(time)

\* the transport under seek targets of any value
SpecSeek ==
  Init /\ [][SessionNext \/ TransportNext \/ \E t \in SeekTargets : LyricSeek(t)]_vars

\* the mixer: the session, play / pause / stop and every mixer control, at a
\* clock that stands still
SpecMixer ==
  Init /\ [][SessionNext \/ togglePlayback \/ stopPlayback
               \/ SoloMuteNext \/ GainNext \/ OverlayNext]_vars

\* the meter: the session, play / pause / stop, solo, mute, the overlays, the
\* gain of the vocal stem and the metering tick, at a clock that stands still
SpecMeter ==
  Init /\ [][SessionNext \/ togglePlayback \/ stopPlayback
               \/ SoloMuteNext \/ OverlayNext
               \/ (\E v \in VolumeInputs : setVolume(1, v))
               \/ MeterNext]_vars

\* the meter under a running clock: the session, the clock, play / pause /
\* stop, the frame callback with its auto-stop, the pitch overlay and the
\* metering tick
SpecPlayMeter ==
  Init /\ [][SessionNext \/ (\E d \in ClockSteps : Tick(d)) \/ Update
               \/ togglePlayback \/ stopPlayback \/ toggleAutoTune
               \/ MeterNext]_vars

\* a click on a track or on the ruler: the offset within the visible width w
\* at zoom z (in tenths); scrollWidth is w * zoom, scrollLeft stays 0
TimelineClicks ==
  \E x \in ClickXs, w \in ViewportWidths, z \in Zooms :
    handleTimelineSeek(x, (w * z) \div 10)

\* the timeline: the session, play / pause / stop and every timeline click,
\* at a clock that stands still
SpecTimeline ==
  Init /\ [][SessionNext \/ togglePlayback \/ stopPlayback \/ TimelineClicks]_vars

\* the timers: upload and processing, the clock, the frame callback, play /
\* pause / stop, a speed change, mute, solo, the two overlays and the
\* metering tick
SpecTimers ==
  Init /\ [][UploadFile \/ ProcessingTick \/ Tick(120000) \/ Update
               \/ togglePlayback \/ stopPlayback \/ setPlaybackSpeed(20)
               \/ toggleMute(1) \/ toggleSolo(2) \/ OverlayNext
               \/ MeterTick(0)]_vars

\* the positions a timeline click reaches
StartProgresses ==
  {ClampProgress(SeekProgress(TimelineTime(x, (w * z) \div 10))) :
     x \in ClickXs, w \in ViewportWidths, z \in Zooms}

\* The user has uploaded a file, clicked the timeline, chosen a speed and
\* pressed play, all at clock 0, and leaves: the lab plays a processed
\* project from any clicked position at any speed.
InitPlaying ==
  /\ now = 0
  /\ playbackStatus = "PLAYING"
  /\ playbackProgress \in StartProgresses
  /\ playbackSpeed \in Speeds
  /\ startTime = AnchorOf(playbackProgress, playbackSpeed, now)
  /\ rafPending = TRUE
  /\ pendingFrames = 1
  /\ isProcessing = FALSE
  /\ procP = 100
  /\ songFile = TRUE
  /\ metadata = [lyrics |-> ProcessedLyrics, chords |-> 6]
  /\ activeModule = "DAW"
  /\ stems = ProcessedStems
  /\ soloedIds = <<>>
  /\ isVocalReference = FALSE
  /\ isAutoTuneActive = FALSE
  /\ peakLevels = [i \in 1..Len(ProcessedStems) |-> 0]
  /\ rmsLevels = [i \in 1..Len(ProcessedStems) |-> 0]
  /\ frequencyLevels = [i \in 1..Len(ProcessedStems) |-> ZeroBands]
  /\ pitchCorrectionDelta = 0
  /\ meterClosure = [stems |-> ProcessedStems, soloedIds |-> <<>>,
                     isVocalReference |-> FALSE, isAutoTuneActive |-> FALSE]
  /\ liveIntervals = 1
  /\ isExporting = FALSE
  /\ expP = 0
  /\ orphanTimers = {}
  /\ storage = Absent
  /\ isGenerating = FALSE
  /\ isRemapping = FALSE
  /\ remapStems = Null
  /\ lastOp = [op |-> "togglePlayback", val |-> playbackProgress, pre |-> "PAUSED"]

\* Playing on with no user action: the wall clock advances, the browser runs
\* a requested frame callback at its next frame, and the metering interval
\* fires in between.
SpecAutoStop ==
  /\ InitPlaying
  /\ [][(\E d \in ClockSteps : Tick(d)) \/ Update \/ MeterNext]_vars
  /\ WF_vars(\E d \in ClockSteps : Tick(d))
  /\ WF_vars(Update)

\* leaving PLAYING: the session, the clock, play / pause / stop, the frame
\* callback, timeline seeks, the mute of the first stem and the metering tick
SpecHalt ==
  Init /\ [][SessionNext \/ (\E d \in ClockSteps : Tick(d)) \/ Update
               \/ togglePlayback \/ stopPlayback
               \/ (\E x \in {300, 900} : handleTimelineSeek(x, 900))
               \/ toggleMute(1)
               \/ MeterNext]_vars

\* ------------------------------------------------------------------ project

\* the stem names in data.newStems of the remap response
RemapNames == {<<>>, <<"Brushed Drums", "Backing Vocals">>}

\* (i + 2).toString(), i from 0, as a function of the position from 1
IdString == <<"2", "3", "4", "5">>

\* stems.find(s => s.name.includes('Vocals')) || stems[0]
KeptStem(list) ==
  LET hits == {i \in 1..Len(list) : list[i].name \in VocalNames} IN
    IF hits = {} THEN list[1]
    ELSE list[CHOOSE i \in hits : \A j \in hits : i <= j]

\* mutant: the new stems are numbered from '1'
RemapStemsFromOne(list, names) ==
  <<KeptStem(list)>> \o
    [i \in 1..Len(names) |->
       [id |-> (<<"1">> \o IdString)[i], name |-> names[i], volume |-> 80, pan |-> 0,
        muted |-> FALSE]]

\* const newStems = [kept, ...(data.newStems || []).map((name, i) => ({ id: (i + 2).toString(), ... }))]
RemapStems(list, names) ==
  <<KeptStem(list)>> \o
    [i \in 1..Len(names) |->
       [id |-> IdString[i], name |-> names[i], volume |-> 80, pan |-> 0,
        muted |-> FALSE]]

ExplorerVisible == UIEnabled /\ songFile /\ activeModule = "EXPLORER"

\* handleNeuralRemap up to its await; the closure keeps the stems of this render
RemapStart ==
  /\ ExplorerVisible /\ ~isRemapping
  /\ lastOp' = [op |-> "remapStart", val |-> 0, pre |-> 0]
  /\ IF metadata = Null \/ Len(stems) = 0
     THEN UNCHANGED <<isRemapping, remapStems>>
     ELSE /\ isRemapping' = TRUE
          /\ remapStems' = stems
  /\ UNCHANGED <<now, teardownVars, transportVars, sessionVars, mixerVars, meterVars,
                 storage, isGenerating>>

\* mutant: the remap replaces the registry and leaves the Solo Set as it is
RemapResponseKeepsSolo(names) ==
  /\ isRemapping
  /\ stems' = RemapStems(remapStems, names)
  /\ soloedIds' = soloedIds
  /\ activeModule' = "DAW"
  /\ isRemapping' = FALSE
  /\ remapStems' = Null
  /\ lastOp' = [op |-> "remap", val |-> Len(names), pre |-> 0]
  /\ UNCHANGED <<now, teardownVars, playbackStatus, playbackProgress, playbackSpeed,
                 isProcessing, procP, songFile, metadata, isVocalReference,
                 isAutoTuneActive, storage, isGenerating>>
  /\ PlaybackEffect
  /\ MeterEffect

\* handleNeuralRemap after its await, the response parsed with the stem names
RemapResponse(names) ==
  /\ isRemapping
  /\ stems' = RemapStems(remapStems, names)
  /\ soloedIds' = <<>>
  /\ activeModule' = "DAW"
  /\ isRemapping' = FALSE
  /\ remapStems' = Null
  /\ lastOp' = [op |-> "remap", val |-> Len(names), pre |-> 0]
  /\ UNCHANGED <<now, teardownVars, playbackStatus, playbackProgress, playbackSpeed, isProcessing, procP,
                 songFile, metadata, isVocalReference, isAutoTuneActive, storage,
                 isGenerating>>
  /\ PlaybackEffect
  /\ MeterEffect

\* handleNeuralRemap after its await: the request or JSON.parse threw
RemapFailed ==
  /\ isRemapping
  /\ isRemapping' = FALSE
  /\ remapStems' = Null
  /\ lastOp' = [op |-> "remapFailed", val |-> 0, pre |-> 0]
  /\ UNCHANGED <<now, teardownVars, transportVars, sessionVars, mixerVars, meterVars,
                 storage, isGenerating>>

\* a stored value that JSON.parse rejects
Unparseable == [kind |-> "text"]

\* mutant: the snapshot is written without the Solo Set
StringifiedNoSolo ==
  [kind |-> "json",
   keys |-> {"stems", "metadata"}
              \cup (IF playbackSpeed = Undefined THEN {} ELSE {"playbackSpeed"}),
   stems |-> stems, soloedIds |-> <<>>, metadata |-> metadata,
   playbackSpeed |-> playbackSpeed]

\* JSON.stringify(projectState): a key whose value is undefined is left out
Stringified ==
  [kind |-> "json",
   keys |-> {"stems", "soloedIds", "metadata"}
              \cup (IF playbackSpeed = Undefined THEN {} ELSE {"playbackSpeed"}),
   stems |-> stems, soloedIds |-> soloedIds, metadata |-> metadata,
   playbackSpeed |-> playbackSpeed]

\* the Save button
saveProjectToLocal ==
  /\ UIEnabled
  /\ storage' = IF songFile THEN Stringified ELSE storage
  /\ lastOp' = [op |-> "save", val |-> 0, pre |-> lastOp.op]
  /\ UNCHANGED <<now, teardownVars, transportVars, sessionVars, mixerVars, meterVars,
                 isGenerating, isRemapping, remapStems>>

\* ({ ...s, pan: s.pan ?? 0 })
WithPan(s) ==
  IF "pan" \in DOMAIN s THEN s
  ELSE [id |-> s.id, name |-> s.name, volume |-> s.volume, pan |-> 0, muted |-> s.muted]

\* JSON.parse(saved) succeeds and state.stems.map does not throw
Applies(blob) ==
  /\ blob # Absent
  /\ blob.kind = "json"
  /\ "stems" \in blob.keys

\* the Load button
loadProjectFromLocal ==
  /\ UIEnabled
  /\ lastOp' = [op |-> "load", val |-> 0, pre |-> lastOp.op]
  /\ IF ~Applies(storage)
     THEN UNCHANGED <<transportVars, sessionVars, mixerVars, meterVars>>
     ELSE /\ stems' = [i \in 1..Len(storage.stems) |-> WithPan(storage.stems[i])]
          /\ soloedIds' = IF "soloedIds" \in storage.keys THEN storage.soloedIds ELSE <<>>
          /\ metadata' = IF "metadata" \in storage.keys THEN storage.metadata ELSE Null
          /\ playbackSpeed' = IF "playbackSpeed" \in storage.keys
                              THEN storage.playbackSpeed ELSE Undefined
          /\ songFile' = TRUE
          /\ activeModule' = "DAW"
          /\ UNCHANGED <<playbackStatus, playbackProgress, isProcessing, procP,
                         isVocalReference, isAutoTuneActive>>
          /\ PlaybackEffect
          /\ MeterEffect
  /\ UNCHANGED <<now, teardownVars, projectVars>>

\* the view is switched away from the lab and back: AudioLab is unmounted and
\* mounted again with its initial state; what is stored stays
Remount ==
  /\ UIEnabled
  /\ playbackStatus' = "STOPPED"
  /\ playbackProgress' = 0
  /\ playbackSpeed' = 10
  /\ startTime' = 0
  /\ rafPending' = FALSE
  /\ pendingFrames' = 0
  /\ isProcessing' = FALSE
  /\ procP' = 0
  /\ songFile' = FALSE
  /\ metadata' = Null
  /\ activeModule' = "DAW"
  /\ stems' = <<>>
  /\ soloedIds' = <<>>
  /\ isVocalReference' = FALSE
  /\ isAutoTuneActive' = FALSE
  /\ peakLevels' = <<>>
  /\ rmsLevels' = <<>>
  /\ frequencyLevels' = <<>>
  /\ pitchCorrectionDelta' = 0
  /\ meterClosure' = Null
  /\ liveIntervals' = 0
  /\ isGenerating' = FALSE
  /\ isRemapping' = FALSE
  /\ remapStems' = Null
  /\ lastOp' = [op |-> "mount", val |-> 0, pre |-> 0]
  /\ UNCHANGED <<now, teardownVars, storage>>

\* the Export Stems button: setIsExporting(true) and an interval of 50 ms
handleExportStems ==
  /\ UIEnabled /\ Len(stems) > 0 /\ ~isExporting
  /\ isExporting' = TRUE
  /\ expP' = 0
  /\ lastOp' = [op |-> "handleExportStems", val |-> 0, pre |-> 0]
  /\ UNCHANGED <<now, transportVars, sessionVars, mixerVars, meterVars, projectVars,
                 orphanTimers>>

\* the interval callback of handleExportStems; at p >= 100 it clears itself
ExportTick ==
  /\ isExporting
  /\ expP' = expP + 5
  /\ isExporting' = (expP + 5 < 100)
  /\ lastOp' = [op |-> "exportTick", val |-> expP + 5, pre |-> 0]
  /\ UNCHANGED <<now, transportVars, sessionVars, mixerVars, meterVars, projectVars,
                 orphanTimers>>

\* the intervals the unmounted instance leaves running: the effects' cleanups
\* cancel the frame and the metering interval, nothing clears the interval of
\* simulateProcessing or of handleExportStems
LeftRunning ==
  (IF isProcessing THEN {[kind |-> "processing", p |-> procP]} ELSE {})
    \cup (IF isExporting THEN {[kind |-> "export", p |-> expP]} ELSE {})

\* the view is switched (from the keyboard: the overlay covers the sidebar)
\* while the lab is processing or exporting, and switched back
Teardown ==
  /\ ~UIEnabled
  /\ Cardinality(orphanTimers \cup LeftRunning) <= MaxOrphans
  /\ orphanTimers' = orphanTimers \cup LeftRunning
  /\ isExporting' = FALSE
  /\ expP' = 0
  /\ playbackStatus' = "STOPPED"
  /\ playbackProgress' = 0
  /\ playbackSpeed' = 10
  /\ startTime' = 0
  /\ rafPending' = FALSE
  /\ pendingFrames' = 0
  /\ isProcessing' = FALSE
  /\ procP' = 0
  /\ songFile' = FALSE
  /\ metadata' = Null
  /\ activeModule' = "DAW"
  /\ stems' = <<>>
  /\ soloedIds' = <<>>
  /\ isVocalReference' = FALSE
  /\ isAutoTuneActive' = FALSE
  /\ peakLevels' = <<>>
  /\ rmsLevels' = <<>>
  /\ frequencyLevels' = <<>>
  /\ pitchCorrectionDelta' = 0
  /\ meterClosure' = Null
  /\ liveIntervals' = 0
  /\ isGenerating' = FALSE
  /\ isRemapping' = FALSE
  /\ remapStems' = Null
  /\ lastOp' = [op |-> "mount", val |-> 0, pre |-> "teardown"]
  /\ UNCHANGED <<now, storage>>

\* an interval callback of an unmounted instance: it counts on and clears
\* itself at p >= 100; its setters address the instance that is gone
OrphanTick(t) ==
  /\ t \in orphanTimers
  /\ LET p == t.p + (IF t.kind = "processing" THEN 2 ELSE 5) IN
       /\ orphanTimers' = (orphanTimers \ {t})
                             \cup (IF p >= 100 THEN {} ELSE {[kind |-> t.kind, p |-> p]})
       /\ lastOp' = [op |-> "orphanTick", val |-> p, pre |-> t.kind]
  /\ UNCHANGED <<now, transportVars, sessionVars, mixerVars, meterVars, projectVars,
                 isExporting, expP>>

TeardownNext ==
  \/ handleExportStems
  \/ ExportTick
  \/ Teardown
  \/ \E t \in orphanTimers : OrphanTick(t)

\* the teardown: upload and processing, export, play / pause, the frame and
\* metering callbacks and the switch of the view at any moment, at a clock
\* that stands still
SpecTeardown ==
  Init /\ [][UploadFile \/ ProcessingTick \/ TeardownNext \/ Remount
               \/ togglePlayback \/ Update \/ MeterTick(0)]_vars

RemapNext ==
  \/ RemapStart
  \/ \E names \in RemapNames : RemapResponse(names)
  \/ RemapFailed

StorageNext ==
  \/ saveProjectToLocal
  \/ loadProjectFromLocal
  \/ Remount

\* a stem of a stored snapshot that this build did not write: its gain and pan
\* are whatever JSON.parse returned
OverdrivenStem ==
  [id |-> "1", name |-> "Guitars / Keys", volume |-> 150, pan |-> 0 - 150, muted |-> FALSE]

\* what the store holds when the lab is first mounted
InitialStores ==
  {Absent, Unparseable,
   [kind |-> "json", keys |-> {}, stems |-> <<>>, soloedIds |-> <<>>,
    metadata |-> Null, playbackSpeed |-> Undefined],
   [kind |-> "json", keys |-> {"stems"}, stems |-> <<>>, soloedIds |-> <<>>,
    metadata |-> Null, playbackSpeed |-> Undefined],
   [kind |-> "json", keys |-> {"stems"}, stems |-> <<OverdrivenStem>>, soloedIds |-> <<>>,
    metadata |-> Null, playbackSpeed |-> Undefined]}

InitStored ==
  /\ now = 0
  /\ playbackStatus = "STOPPED"
  /\ playbackProgress = 0
  /\ playbackSpeed = 10
  /\ startTime = 0
  /\ rafPending = FALSE
  /\ pendingFrames = 0
  /\ isProcessing = FALSE
  /\ procP = 0
  /\ songFile = FALSE
  /\ metadata = Null
  /\ activeModule = "DAW"
  /\ stems = <<>>
  /\ soloedIds = <<>>
  /\ isVocalReference = FALSE
  /\ isAutoTuneActive = FALSE
  /\ peakLevels = <<>>
  /\ rmsLevels = <<>>
  /\ frequencyLevels = <<>>
  /\ pitchCorrectionDelta = 0
  /\ meterClosure = Null
  /\ liveIntervals = 0
  /\ isExporting = FALSE
  /\ expP = 0
  /\ orphanTimers = {}
  /\ storage \in InitialStores
  /\ isGenerating = FALSE
  /\ isRemapping = FALSE
  /\ remapStems = Null
  /\ lastOp = [op |-> "mount", val |-> 0, pre |-> 0]

\* the snapshot: the session, generation, save / load / remount and the mute,
\* solo and gain of the first stem rows, at a stopped transport, from any
\* stored value
SpecSnapshot ==
  InitStored /\ [][UploadFile \/ ProcessingTick
                     \/ (\E m \in {"DAW", "GENERATOR"} : setActiveModule(m))
                     \/ GenerateStart \/ GenerateResponse(6) \/ GenerateFailed
                     \/ StorageNext
                     \/ toggleMute(1) \/ toggleSolo(2) \/ setVolume(1, 100)]_vars

\* the registry: the session, generation, remap, save / load and the mute,
\* gain and pan of the first stem row, at a stopped transport
SpecRegistry ==
  Init /\ [][UploadFile \/ ProcessingTick
               \/ (\E m \in {"DAW", "GENERATOR", "EXPLORER"} : setActiveModule(m))
               \/ GenerateStart \/ GenerateResponse(6) \/ GenerateFailed
               \/ RemapNext
               \/ saveProjectToLocal \/ loadProjectFromLocal
               \/ toggleMute(1) \/ setVolume(1, 100) \/ setPan(1, 0 - 100)]_vars

\* the Solo Set: the session, generation, remap, save / load and the solo
\* buttons of the stem rows, at a stopped transport
SpecSolo ==
  Init /\ [][UploadFile \/ ProcessingTick
               \/ (\E m \in {"DAW", "GENERATOR", "EXPLORER"} : setActiveModule(m))
               \/ GenerateStart \/ GenerateResponse(6) \/ GenerateFailed
               \/ RemapNext
               \/ saveProjectToLocal \/ loadProjectFromLocal
               \/ (\E i \in {1, 2, 4} : toggleSolo(i))]_vars

\* the lyric cues: the session, generation, the clock, play / pause / stop and
\* the lyric lines of the karaoke view
SpecLyrics ==
  Init /\ [][SessionNext \/ GenerateNext
               \/ (\E d \in ClockSteps : Tick(d)) \/ Update
               \/ togglePlayback \/ stopPlayback
               \/ (\E i \in 1..7 : LyricClick(i))]_vars

Next ==
  \/ SessionNext \/ TransportNext \/ SoloMuteNext \/ GainNext \/ OverlayNext \/ MeterNext
  \/ setActiveModule("EXPLORER") \/ GenerateNext \/ RemapNext \/ StorageNext
  \/ TeardownNext

Spec == Init /\ [][Next]_vars

\* ------------------------------------------------------------------ claims

\* a step of handler op (the clock does not move inside a handler)
Ran(op) == lastOp'.op = op /\ now' = now

\* C1: an update step that computes a progress >= 100 while PLAYING sets
\* progress to 0 and status to STOPPED in that same step and requests no
\* further frame.
C1_AutoStop ==
  [][ (Ran("update") /\ rafPending /\ playbackStatus = "PLAYING"
         /\ ((now - startTime) * Full) \div Span(playbackSpeed) >= Full)
      => (playbackProgress' = 0 /\ playbackStatus' = "STOPPED" /\ ~rafPending') ]_vars

C1_Witness ==
  /\ lastOp.op = "update" /\ lastOp.val > Full /\ lastOp.pre > 0
  /\ playbackStatus = "STOPPED" /\ playbackProgress = 0 /\ ~rafPending

\* C2: play() from PAUSED or STOPPED moves to PLAYING, keeps progress p and
\* anchors the clock at now - (p/100 * duration * 1000 / speed): the progress
\* computed from that anchor equals p when no time has elapsed and is >= p
\* after any elapsed time.
C2_ResumeContinuous ==
  [][ (Ran("togglePlayback") /\ playbackStatus # "PLAYING")
      => /\ playbackStatus' = "PLAYING" /\ rafPending'
         /\ playbackProgress' = playbackProgress
         /\ startTime' * Full = now * Full - playbackProgress * Span(playbackSpeed)
         /\ NewProgress(startTime', playbackSpeed', now') = playbackProgress
         /\ \A d \in ClockSteps :
              NewProgress(startTime', playbackSpeed', now' + d) >= playbackProgress ]_vars

C2_Witness ==
  /\ lastOp.op = "togglePlayback" /\ lastOp.pre = "PAUSED"
  /\ playbackStatus = "PLAYING" /\ playbackProgress > 0 /\ playbackSpeed = 20

\* C3: while status stays PLAYING, no step other than an explicit seek
\* decreases progress.
C3_MonotoneWhilePlaying ==
  [][ (playbackStatus = "PLAYING" /\ playbackStatus' = "PLAYING" /\ ~Ran("jumpToTime"))
      => playbackProgress' >= playbackProgress ]_vars

C3_Witness ==
  /\ lastOp.op = "update" /\ lastOp.val > lastOp.pre /\ lastOp.pre > 0
  /\ playbackStatus = "PLAYING" /\ playbackSpeed = 5

\* C4: a seek to a numeric target t sets progress to t/duration*100 clamped
\* into [0,100]; STOPPED becomes PAUSED, PAUSED stays PAUSED and PLAYING
\* stays PLAYING.
C4_SeekClamps ==
  [][ (Ran("jumpToTime") /\ ~IsNaN(lastOp'.val))
      => LET raw == (lastOp'.val * Full) \div (trackDuration * 1000) IN
           /\ playbackProgress' = (IF raw < 0 THEN 0 ELSE IF raw > Full THEN Full ELSE raw)
           /\ playbackStatus' = (IF playbackStatus = "STOPPED" THEN "PAUSED"
                                 ELSE playbackStatus) ]_vars

C4_Witness ==
  /\ lastOp.op = "jumpToTime" /\ lastOp.val > trackDuration * 1000
  /\ lastOp.pre = "STOPPED" /\ playbackStatus = "PAUSED" /\ playbackProgress = Full

\* C5: a seek whose target is negative or NaN results in progress = 0.
C5_InvalidSeekToZero ==
  (lastOp.op = "jumpToTime" /\ (IsNaN(lastOp.val) \/ lastOp.val < 0))
    => playbackProgress = 0

\* C6: a change of speed while PLAYING takes effect in that step, leaves
\* progress unchanged and re-anchors from it with the new speed: the progress
\* computed from the new anchor equals the current progress at the instant of
\* the change and advances at the new rate afterwards.
C6_SpeedChangeReanchors ==
  [][ (Ran("setPlaybackSpeed") /\ playbackStatus = "PLAYING"
         /\ lastOp'.val # playbackSpeed)
      => /\ playbackSpeed' = lastOp'.val
         /\ playbackStatus' = "PLAYING" /\ rafPending'
         /\ playbackProgress' = playbackProgress
         /\ NewProgress(startTime', playbackSpeed', now') = playbackProgress
         /\ \A d \in ClockSteps :
              NewProgress(startTime', playbackSpeed', now' + d) - playbackProgress
                = ((d \div 1000) * Full * playbackSpeed') \div (trackDuration * 10) ]_vars

C6_Witness ==
  /\ lastOp.op = "setPlaybackSpeed" /\ lastOp.pre # lastOp.val
  /\ playbackStatus = "PLAYING" /\ playbackProgress > 0 /\ rafPending

\* C7: with a non-empty Solo Set a stem is active exactly when its id is
\* soloed, whatever its muted flag; with an empty Solo Set it is active
\* exactly when it is not muted.
C7_ActivityResolver ==
  \A i \in 1..Len(stems) :
    /\ Cardinality(Range(soloedIds)) > 0
         => (isStemActive(stems[i], soloedIds)
               <=> \E k \in 1..Len(soloedIds) : soloedIds[k] = stems[i].id)
    /\ Cardinality(Range(soloedIds)) = 0
         => (isStemActive(stems[i], soloedIds) <=> stems[i].muted = FALSE)

C7_Witness ==
  /\ Len(stems) >= 2 /\ soloedIds = <<"2">>
  /\ ~stems[1].muted /\ stems[2].muted
  /\ ~isStemActive(stems[1], soloedIds) /\ isStemActive(stems[2], soloedIds)

Activity(list, solo) == [j \in 1..Len(list) |-> isStemActive(list[j], solo)]
Reversed(seq) == [j \in 1..Len(seq) |-> seq[Len(seq) + 1 - j]]
StemIds == {stems[j].id : j \in 1..Len(stems)}
\* a mixer operation applied to <<registry, solo list>>
Applied(o, st) ==
  IF o[1] = "solo" THEN <<st[1], SoloToggled(st[2], o[2])>>
  ELSE <<MuteToggled(st[1], o[2]), st[2]>>
MixerOps == {"solo", "mute"} \X StemIds

\* C8: the activity of every stem is the same for every order of the solo
\* list, any two mute / solo operations give the same activity in either
\* order, and toggling solo twice on a stem restores the activity of all.
C8_OrderIndependent ==
  LET st == <<stems, soloedIds>> IN
    /\ Activity(stems, Reversed(soloedIds)) = Activity(stems, soloedIds)
    /\ \A a \in MixerOps, b \in MixerOps :
         LET ab == Applied(b, Applied(a, st))
             ba == Applied(a, Applied(b, st))
         IN Activity(ab[1], ab[2]) = Activity(ba[1], ba[2])
    /\ \A id \in StemIds :
         Activity(stems, SoloToggled(SoloToggled(soloedIds, id), id))
           = Activity(stems, soloedIds)

C8_Witness ==
  /\ soloedIds = <<"2", "1">> /\ Len(stems) >= 2 /\ stems[1].muted
  /\ lastOp.op = "toggleSolo"

\* an effective volume e (over VolDen) of a vocal stem of volume v in
\* reference mode: max(20, v * k) for some k in [0.2, 0.25]
InReferenceRange(e, v) ==
  /\ e >= Max(20 * VolDen, (v * 20 * VolDen) \div 100)
  /\ e <= Max(20 * VolDen, (v * 25 * VolDen) \div 100)

\* C9: in reference mode the effective volume of a vocal stem is
\* max(20, volume * k), k in [0.2, 0.25], in the metering tick and in the
\* displayed gain; every other effective volume is the stored volume.
C9_ReferenceGain ==
  lastOp.op = "meterTick" =>
    \A i \in 1..Len(stems) :
      IF isVocalReference /\ IsVocalStem(stems[i])
      THEN /\ InReferenceRange(MeterEffectiveVol(stems[i], isVocalReference), stems[i].volume)
           /\ InReferenceRange(DisplayVolume(stems[i], isVocalReference), stems[i].volume)
      ELSE /\ MeterEffectiveVol(stems[i], isVocalReference) = stems[i].volume * VolDen
           /\ DisplayVolume(stems[i], isVocalReference) = stems[i].volume * VolDen

\* C10: after a meter tick, a vocal stem that is not active (muted with an
\* empty Solo Set, or absent from a non-empty one) has peak 0, rms 0 and all
\* bands 0, also in reference mode.
C10_InactiveVocalSilent ==
  lastOp.op = "meterTick" =>
    \A i \in 1..Len(stems) :
      (IsVocalStem(stems[i])
         /\ (IF soloedIds = <<>> THEN stems[i].muted
             ELSE stems[i].id \notin Range(soloedIds)))
      => /\ peakLevels[i] = 0
         /\ rmsLevels[i] = 0
         /\ \A b \in 1..EQ_BANDS : frequencyLevels[i][b] = 0

C10_Witness ==
  /\ lastOp.op = "meterTick" /\ isVocalReference
  /\ Len(stems) >= 2 /\ stems[1].muted /\ soloedIds = <<>> /\ stems[1].volume = 100
  /\ peakLevels[1] = 0 /\ peakLevels[2] > 0

\* C11: the frame a metering tick produces has one peak, one rms and one
\* entry of EQ_BANDS bands per stem of the registry, at the position of the
\* stem; the entry of an inactive stem is peak 0, rms 0 and EQ_BANDS zeros.
C11_FramePerStem ==
  lastOp.op = "meterTick" =>
    /\ Len(peakLevels) = Len(stems)
    /\ Len(rmsLevels) = Len(stems)
    /\ Len(frequencyLevels) = Len(stems)
    /\ \A i \in 1..Len(stems) :
         /\ DOMAIN frequencyLevels[i] = 1..EQ_BANDS
         /\ ~isStemActive(stems[i], soloedIds)
              => /\ peakLevels[i] = 0
                 /\ rmsLevels[i] = 0
                 /\ \A b \in 1..EQ_BANDS : frequencyLevels[i][b] = 0

C11_Witness ==
  /\ lastOp.op = "meterTick" /\ Len(stems) = 4 /\ soloedIds = <<>>
  /\ stems[2].muted /\ ~stems[1].muted /\ stems[1].volume = 100
  /\ Len(peakLevels) = 4 /\ peakLevels[1] > 0 /\ peakLevels[2] = 0 /\ peakLevels[3] > 0

\* every stored level is zero
AllLevelsZero ==
  /\ \A i \in DOMAIN peakLevels : peakLevels[i] = 0
  /\ \A i \in DOMAIN rmsLevels : rmsLevels[i] = 0
  /\ \A i \in DOMAIN frequencyLevels :
       \A b \in DOMAIN frequencyLevels[i] : frequencyLevels[i][b] = 0

\* C12: whenever status is not PLAYING every peak, rms and band of every stem
\* is 0, there is one zero entry per stem, and no metering callback is
\* pending that could produce a frame.
C12_SilentWhenNotPlaying ==
  playbackStatus # "PLAYING" =>
    /\ AllLevelsZero
    /\ Len(peakLevels) = Len(stems)
    /\ Len(rmsLevels) = Len(stems)
    /\ Len(frequencyLevels) = Len(stems)
    /\ meterClosure = Null

C12_Witness ==
  /\ lastOp.op = "update" /\ lastOp.val >= Full /\ playbackStatus = "STOPPED"
  /\ Len(stems) = 4 /\ Len(peakLevels) = 4 /\ AllLevelsZero /\ meterClosure = Null

\* C13: in the frame a metering tick produces, for every stem, rms <= peak
\* and 0 <= peak <= effectiveVol / 100, with peak < effectiveVol / 100 when
\* effectiveVol is positive.
C13_RmsBelowPeak ==
  lastOp.op = "meterTick" =>
    \A i \in 1..Len(stems) :
      LET bound == MeterEffectiveVol(stems[i], isVocalReference) * RandDen IN
        /\ rmsLevels[i] <= peakLevels[i] * 10 * RandDen
        /\ 0 <= peakLevels[i] /\ peakLevels[i] <= bound
        /\ bound > 0 => peakLevels[i] < bound

C13_Witness ==
  /\ lastOp.op = "meterTick" /\ Len(stems) = 4
  /\ peakLevels[2] > 0 /\ rmsLevels[2] > 0
  /\ rmsLevels[2] < peakLevels[2] * 10 * RandDen
  /\ isVocalReference /\ peakLevels[1] > 0

\* C14: the pitch-correction delta lies in [-20, 20] and is 0 in every state
\* where isAutoTuneActive is false or status is not PLAYING.
C14_DeltaPinned ==
  /\ pitchCorrectionDelta >= 0 - 20 * RandDen
  /\ pitchCorrectionDelta <= 20 * RandDen
  /\ (~isAutoTuneActive \/ playbackStatus # "PLAYING") => pitchCorrectionDelta = 0

\* the greatest index (from 0) i with cue[i].time <= time and (i is the last
\* index or cue[i+1].time > time), or -1
GreatestCue(cue, time) ==
  LET S == {i \in 1..Len(cue) :
              /\ CueTime(cue[i]) <= time
              /\ (i = Len(cue) \/ CueTime(cue[i + 1]) > time)}
  IN IF S = {} THEN 0 - 1 ELSE (CHOOSE i \in S : \A j \in S : j <= i) - 1

\* C15: currentLyricIndex is the greatest index i with cue[i].time <= t and
\* (i last or cue[i+1].time > t), and -1 when there are no cues or no cue has
\* time <= t; for cues at 5, 12, 20 it is 1 at t = 13 and -1 at t = 4.
C15_CurrentIndex ==
  LET t == TrackTime(playbackProgress) IN
    /\ metadata = Null => currentLyricIndex = 0 - 1
    /\ metadata # Null =>
         /\ currentLyricIndex = GreatestCue(metadata.lyrics, t)
         /\ (\A i \in 1..Len(metadata.lyrics) : CueTime(metadata.lyrics[i]) > t)
              => currentLyricIndex = 0 - 1
    /\ FindIndex(<<5, 12, 20>>, CueTime(13)) = 1
    /\ FindIndex(<<5, 12, 20>>, CueTime(4)) = 0 - 1

C15_Witness ==
  /\ metadata # Null /\ Len(metadata.lyrics) = 7
  /\ lastOp.op = "update" /\ playbackStatus = "PLAYING"
  /\ TrackTime(playbackProgress) >= CueTime(44)
  /\ currentLyricIndex = 5

\* before the first cue no line is current
NoneBeforeFirstCue(meta, progress) ==
  (meta # Null /\ Len(meta.lyrics) > 0
     /\ TrackTime(progress) < CueTime(meta.lyrics[1]))
    => LyricIndexOf(meta, progress) = 0 - 1

\* C16: over a fixed cue list, a step that keeps status PLAYING and is not a
\* seek never lowers currentLyricIndex (-1 below every index), and the index
\* is -1 at every time before the first cue.
C16_IndexMonotone ==
  [][ /\ (playbackStatus = "PLAYING" /\ playbackStatus' = "PLAYING"
            /\ metadata' = metadata /\ ~Ran("jumpToTime"))
         => LyricIndexOf(metadata', playbackProgress')
              >= LyricIndexOf(metadata, playbackProgress)
      /\ NoneBeforeFirstCue(metadata', playbackProgress') ]_vars

C16_Witness ==
  /\ lastOp.op = "update" /\ playbackStatus = "PLAYING" /\ metadata # Null
  /\ LyricIndexOf(metadata, lastOp.pre) = 0 - 1
  /\ currentLyricIndex = 3

\* C17: clicking lyric line i seeks to cue[i].time: afterwards the transport
\* time is cue[i].time clamped to [0, trackDuration] and, the cue times being
\* distinct and within the duration, currentLyricIndex is i.
C17_CueSeek ==
  [][ (Ran("jumpToTime") /\ activeModule = "KARAOKE" /\ metadata # Null)
      => \A i \in 1..Len(metadata.lyrics) :
           metadata.lyrics[i] * 1000 = lastOp'.val
             => /\ TrackTime(playbackProgress')
                     = CueTime(Min(metadata.lyrics[i], trackDuration))
                /\ LyricIndexOf(metadata', playbackProgress') = i - 1 ]_vars

Complete(blob) ==
  /\ blob # Absent
  /\ blob.kind = "json"
  /\ {"stems", "soloedIds", "metadata", "playbackSpeed"} \subseteq blob.keys

\* C19: load() with nothing stored, or with a stored value that does not
\* parse or is not a complete snapshot, leaves the Stem Registry, the Solo
\* Set, the lyric cues, the speed and the active view unchanged.
C19_LoadAborts ==
  [][ (Ran("load") /\ ~Complete(storage))
      => UNCHANGED <<stems, soloedIds, metadata, playbackSpeed, activeModule>> ]_vars

C21_InRange ==
  \A i \in 1..Len(stems) :
    /\ stems[i].volume \in 0..100
    /\ stems[i].pan \in (0 - 100)..100

\* C22: a step that takes the status out of PLAYING (pause, stop, auto-stop)
\* leaves no frame and no metering interval pending; while the status is
\* PAUSED or STOPPED neither the frame callback nor the metering callback
\* runs, and progress changes only by a seek or by stop.
C22_HaltCancels ==
  [][ /\ (playbackStatus = "PLAYING" /\ playbackStatus' # "PLAYING")
           => /\ ~rafPending' /\ pendingFrames' = 0
              /\ meterClosure' = Null /\ liveIntervals' = 0
      /\ playbackStatus # "PLAYING"
           => /\ ~Ran("update") /\ ~Ran("meterTick")
              /\ playbackProgress' # playbackProgress
                   => (Ran("jumpToTime") \/ Ran("stopPlayback")) ]_vars

C22_Witness ==
  /\ lastOp.op = "togglePlayback" /\ lastOp.pre = "PLAYING"
  /\ playbackStatus = "PAUSED" /\ playbackProgress > 0 /\ now > 0
  /\ Len(stems) = 4 /\ stems[1].muted
  /\ ~rafPending /\ meterClosure = Null

\* C23: after the lab was unmounted no callback of the unmounted instance is
\* pending or runs: no frame, no metering interval, no processing-progress
\* interval and no export interval.
C23_TeardownCancels ==
  /\ orphanTimers = {}
  /\ lastOp.op # "orphanTick"
  /\ lastOp.op = "mount"
       => (~rafPending /\ pendingFrames = 0 /\ meterClosure = Null /\ liveIntervals = 0)

\* C24: the pending metering callback holds the Stem Registry, the Solo Set
\* and the reference flag as they are now, and the frame a metering tick
\* wrote is, for every stem, the frame computed from the registry, the Solo
\* Set and the reference flag of the state in which the tick ran.
C24_FreshFrame ==
  /\ meterClosure # Null
       => /\ meterClosure.stems = stems
          /\ meterClosure.soloedIds = soloedIds
          /\ meterClosure.isVocalReference = isVocalReference
  /\ lastOp.op = "meterTick"
       => /\ Len(peakLevels) = Len(stems)
          /\ \A i \in 1..Len(stems) :
               LET f == StemFrame(stems[i], i, soloedIds, isVocalReference, lastOp.val) IN
                 /\ peakLevels[i] = f.peak
                 /\ rmsLevels[i] = f.rms
                 /\ frequencyLevels[i] = f.bands

C24_Witness ==
  /\ lastOp.op = "meterTick" /\ playbackStatus = "PLAYING" /\ Len(stems) = 4
  /\ soloedIds = <<"2">> /\ stems[2].muted /\ ~stems[1].muted /\ isVocalReference
  /\ stems[1].volume = 100
  /\ peakLevels[2] > 0 /\ peakLevels[1] = 0 /\ peakLevels[3] = 0

\* (x / W) * 100 clamped to [0, 100], in progress units
RatioProgress(x, W) == Max(0, Min(Full, (x * Full) \div W))

C26_RemapKeepsCurrent ==
  [][ (Ran("remap") /\ Len(stems) > 0)
      => /\ stems'[1].volume = KeptStem(stems).volume
         /\ stems'[1].pan = KeptStem(stems).pan
         /\ stems'[1].muted = KeptStem(stems).muted
         /\ soloedIds' = <<>> ]_vars

\* C27: whenever the status is STOPPED, progress is 0 and no frame is pending
\* that could write another progress.
C27_StoppedAtZero ==
  playbackStatus = "STOPPED"
    => (playbackProgress = 0 /\ ~rafPending /\ pendingFrames = 0)

C27_Witness ==
  /\ playbackStatus = "STOPPED" /\ playbackProgress = 0
  /\ lastOp.op = "update" /\ lastOp.pre > Full \div 2 /\ lastOp.val >= Full
  /\ playbackSpeed = 20 /\ metadata # Null /\ activeModule = "KARAOKE"

OneTimerEach ==
  /\ pendingFrames <= 1 /\ liveIntervals <= 1
  /\ rafPending <=> pendingFrames = 1
  /\ meterClosure # Null <=> liveIntervals = 1

\* a dependency of the Peak Meter effect changes in the step
MeterEffectRuns ==
  <<playbackStatus', stems', soloedIds', isVocalReference', isAutoTuneActive'>>
    # <<playbackStatus, stems, soloedIds, isVocalReference, isAutoTuneActive>>

\* C29: in every state at most one frame and at most one metering interval
\* are pending, and a frame callback that only writes progress (the status
\* stays PLAYING) does not re-run the Peak Meter effect: the metering interval
\* and what it captured stay as they are.
C29_OneTimerEach ==
  [][ /\ OneTimerEach /\ OneTimerEach'
      /\ (Ran("update") /\ playbackStatus' = "PLAYING")
           => (~MeterEffectRuns /\ UNCHANGED <<meterClosure, liveIntervals>>) ]_vars

C29_Witness ==
  /\ lastOp.op = "update" /\ lastOp.val > lastOp.pre /\ playbackStatus = "PLAYING"
  /\ soloedIds = <<"2">> /\ isVocalReference /\ isAutoTuneActive
  /\ Len(stems) = 4 /\ stems[1].muted
  /\ pendingFrames = 1 /\ liveIntervals = 1
  /\ pitchCorrectionDelta # 0

\* C30: with the clock advancing, requested frames run and no user action,
\* a PLAYING transport eventually is STOPPED with progress 0, from any
\* starting progress and at any speed > 0.
C30_EventuallyStopped ==
  (playbackStatus = "PLAYING") ~> (playbackStatus = "STOPPED" /\ playbackProgress = 0)

C30_Witness ==
  /\ playbackStatus = "STOPPED" /\ playbackProgress = 0 /\ ~rafPending
  /\ lastOp.op = "update" /\ lastOp.val >= Full /\ lastOp.pre < Full \div 2
  /\ playbackSpeed = 5 /\ now >= 240000

====
